---- MODULE Spec2Model ----
(***************************************************************************)
(* Guesslytics: the request queue and rate-limited executor of              *)
(* src/lib/api.ts, and the feed-pagination / incremental-sync engine        *)
(* (processGames, processFeedPages, syncRatingHistory) together with its    *)
(* entry points in the userscript's main closure.                           *)
(*                                                                          *)
(* JavaScript is single-threaded: an action is the code that runs between   *)
(* two macrotask suspension points (a timer, an HTTP callback, a DOM event).*)
(* Awaits on GM_getValue / GM_setValue / getStoredData only yield to the    *)
(* microtask queue and are part of the action that contains them.           *)
(***************************************************************************)
EXTENDS Integers, Sequences, FiniteSets, TLC

VARIABLES
    requestQueue,       \* api.ts:12   queued request ids, oldest first
    isProcessingQueue,  \* api.ts:18
    rateLimitDelay,     \* api.ts:24   shared penalty in ms
    drainTimers,        \* number of pending setTimeout(processRequestQueue, 100)
    exec,               \* executeRequest invocations: id -> [phase, i, retryDelay]
    settled,            \* id -> value the fetchApi promise settled with
    enqueued,           \* number of fetchApi calls made so far
    startOrder,         \* ids in the order their executeRequest call began
    qev,                \* what the last queue step did (an attempt: its outcome)
    storedHistory,      \* GM store, RATING_HISTORY_KEY
    backfillStateStore, \* GM store, BACKFILL_STATE_KEY
    settings,           \* index.ts:16  the live settings object
    oldSettings,        \* index.ts:159 snapshot taken when the panel's handlers attach
    userId,             \* index.ts:19
    isSyncing,          \* index.ts:18
    activePasses,       \* syncRatingHistory invocations that have not returned
    passes,             \* sync invocations made since the page was loaded
    p,                  \* locals of the sync pass in flight
    ev                  \* what the last sync step did

qvars == <<requestQueue, isProcessingQueue, rateLimitDelay, drainTimers, exec,
           settled, enqueued, startOrder, qev>>

svars == <<storedHistory, backfillStateStore, settings, oldSettings, userId,
           isSyncing, activePasses, passes, p, ev>>

vars == <<requestQueue, isProcessingQueue, rateLimitDelay, drainTimers, exec,
          settled, enqueued, startOrder, qev,
          storedHistory, backfillStateStore, settings, oldSettings, userId,
          isSyncing, activePasses, passes, p, ev>>

----------------------------------------------------------------------------
(* Bounds of the model *)
MaxRequests == 4        \* fetchApi calls explored in the queue specification

(* Program constants *)
RATE_LIMIT_MAX_DELAY == 15000
RATE_LIMIT_FLOOR == 2000
COOLDOWN_STEP == 100
DEFAULT_RETRIES == 3
DEFAULT_RETRY_DELAY == 1000
RATE_LIMIT_MIN_RETRY == 3000

Max(a, b) == IF a >= b THEN a ELSE b
Min(a, b) == IF a <= b THEN a ELSE b

----------------------------------------------------------------------------
(* Request queue, api.ts:40-88 *)

\* what an attempt can end with (api.ts:128-142); "errorText429" is an onerror
\* whose serialised error object happens to hold the digits 429 (api.ts:141)
HttpOutcomes == {"2xx", "429", "5xx", "4xx", "error", "errorText429", "timeout"}

\* handleError is imported from ./utils (api.ts:2); it logs and returns, and
\* the caller goes on with k
handleError(k) == k

\* api.ts:41: the early return of processRequestQueue, negated
CanProcess_NoFlag(flag, q) == q # <<>>
CanProcess(flag, q) == ~flag /\ q # <<>>

\* api.ts:49: requestQueue.shift() takes the oldest entry
ShiftIndex_Last(q) == Len(q)
ShiftIndex(q) == 1

RemoveAt(q, k) == SubSeq(q, 1, k - 1) \o SubSeq(q, k + 1, Len(q))

\* api.ts:45-47: cool-down tick at the start of a queue cycle
CoolDown_None(d) == d
CoolDown_Halve(d) == d \div 2
CoolDown(d) == IF d > 0 THEN Max(0, d - COOLDOWN_STEP) ELSE d

\* api.ts:149: penalty after a 429
Penalise_NoFloor(d) == Min(RATE_LIMIT_MAX_DELAY, d * 2)
Penalise_NoCap(d) == (IF d = 0 THEN RATE_LIMIT_FLOOR ELSE d) * 2
Penalise(d) == Min(RATE_LIMIT_MAX_DELAY, (IF d = 0 THEN RATE_LIMIT_FLOOR ELSE d) * 2)

\* executeRequest up to its first await (api.ts:116-118)
NewExec ==
    [phase |-> "preDelay", i |-> 0, retryDelay |-> DEFAULT_RETRY_DELAY,
     currentRetryDelay |-> 0]

Executing == {id \in DOMAIN exec : exec[id].phase # "settled"}

\* a request has settled and processRequestQueue's continuation is still in
\* the microtask queue; no timer or HTTP callback runs before it
ResumePending == \E id \in DOMAIN exec : exec[id].phase = "settled"

\* processRequestQueue() called with the queue holding q (api.ts:40-52):
\* runs up to `await nextRequest()`, i.e. into executeRequest's pre-delay
ProcessRequestQueue(q, startedBy) ==
    IF CanProcess(isProcessingQueue, q)
    THEN LET k == ShiftIndex(q)
             id == q[k]
         IN /\ isProcessingQueue' = TRUE
            /\ rateLimitDelay' = CoolDown(rateLimitDelay)
            /\ requestQueue' = RemoveAt(q, k)
            /\ exec' = (id :> NewExec) @@ exec
            /\ startOrder' = Append(startOrder, id)
            /\ qev' = startedBy
    ELSE /\ requestQueue' = q
         /\ qev' = "idle"
         /\ UNCHANGED <<isProcessingQueue, rateLimitDelay, exec, startOrder>>

\* fetchApi(url, delay) -> enqueueRequest (api.ts:78-88, 186-188)
FetchApi ==
    /\ enqueued < MaxRequests
    /\ enqueued' = enqueued + 1
    /\ LET q == Append(requestQueue, enqueued + 1)
       IN IF ~isProcessingQueue
          THEN ProcessRequestQueue(q, "startByEnqueue")
          ELSE /\ requestQueue' = q
               /\ qev' = "queued"
               /\ UNCHANGED <<isProcessingQueue, rateLimitDelay, exec, startOrder>>
    /\ UNCHANGED <<drainTimers, settled>>
    /\ UNCHANGED svars

\* the timer set at api.ts:61 fires
DrainTimer ==
    /\ ~ResumePending
    /\ drainTimers > 0
    /\ drainTimers' = drainTimers - 1
    /\ ProcessRequestQueue(requestQueue, "startByTimer")
    /\ UNCHANGED <<settled, enqueued>>
    /\ UNCHANGED svars

\* sleep(baseApiRequestDelay + rateLimitDelay) elapses and the first
\* GM_xmlhttpRequest is issued (api.ts:118-123)
PreDelayDone(id) ==
    /\ ~ResumePending
    /\ id \in DOMAIN exec
    /\ exec[id].phase = "preDelay"
    /\ exec' = [exec EXCEPT ![id].phase = "attempt"]
    /\ qev' = "http"
    /\ UNCHANGED <<requestQueue, isProcessingQueue, rateLimitDelay, drainTimers,
                   settled, enqueued, startOrder>>
    /\ UNCHANGED svars

\* api.ts:130-142: which outcomes reject the attempt's promise
IsRejected_All(o) == o # "2xx"
IsRejected(o) == o \in {"429", "5xx", "error", "errorText429", "timeout"}

\* api.ts:146: error.message?.includes('429')
IsRateLimit(o) == o \in {"429", "errorText429"}

\* api.ts:155
IsLastAttempt(i) == i = DEFAULT_RETRIES - 1

\* api.ts:156-157: what executeRequest settles with once the retries are used up
ExhaustedResult_Rejects == "rejected"
ExhaustedResult == handleError("null")

\* api.ts:160: how long the executor sleeps before the next attempt
CurrentRetryDelay_NoPenalty(isRateLimit, retryDelay, penalty) ==
    IF isRateLimit THEN Max(retryDelay, RATE_LIMIT_MIN_RETRY) ELSE retryDelay
CurrentRetryDelay(isRateLimit, retryDelay, penalty) ==
    (IF isRateLimit THEN Max(retryDelay, RATE_LIMIT_MIN_RETRY) ELSE retryDelay)
        + penalty

\* the attempt's callback runs (api.ts:128-164)
HttpDone(id, o) ==
    /\ ~ResumePending
    /\ id \in DOMAIN exec
    /\ exec[id].phase = "attempt"
    /\ LET e == exec[id]
           isRateLimit == IsRateLimit(o)
           pen == IF isRateLimit THEN Penalise(rateLimitDelay) ELSE rateLimitDelay
       IN IF ~IsRejected(o)
          THEN /\ exec' = [exec EXCEPT ![id].phase = "settled"]
               /\ settled' = (id :> (IF o = "2xx" THEN "data" ELSE "null")) @@ settled
               /\ UNCHANGED rateLimitDelay
          ELSE /\ rateLimitDelay' = pen
               /\ IF IsLastAttempt(e.i)
                  THEN /\ exec' = [exec EXCEPT ![id].phase = "settled"]
                       /\ settled' = (id :> ExhaustedResult) @@ settled
                  ELSE /\ exec' = [exec EXCEPT ![id] =
                                     [phase |-> "retryWait", i |-> e.i + 1,
                                      retryDelay |-> e.retryDelay * 2,
                                      currentRetryDelay |->
                                          CurrentRetryDelay(isRateLimit, e.retryDelay, pen)]]
                       /\ UNCHANGED settled
    /\ qev' = o
    /\ UNCHANGED <<requestQueue, isProcessingQueue, drainTimers, enqueued, startOrder>>
    /\ UNCHANGED svars

\* sleep(currentRetryDelay) elapses, next attempt is issued (api.ts:162, 120-123)
RetryWaitDone(id) ==
    /\ ~ResumePending
    /\ id \in DOMAIN exec
    /\ exec[id].phase = "retryWait"
    /\ exec' = [exec EXCEPT ![id].phase = "attempt"]
    /\ qev' = "http"
    /\ UNCHANGED <<requestQueue, isProcessingQueue, rateLimitDelay, drainTimers,
                   settled, enqueued, startOrder>>
    /\ UNCHANGED svars

\* how a queued task can fail: the promise of requestFn rejects and the
\* wrapper passes the rejection on to the caller (api.ts:81), or the task
\* itself throws into the catch of processRequestQueue (api.ts:53-55)
TaskFailures == {"rejected", "thrown"}

\* api.ts:51-58: is the queue still marked as processing once the task is over
StillProcessingAfter_Failure(result) == result \in TaskFailures
StillProcessingAfter(result) ==
    IF result \in TaskFailures THEN handleError(FALSE) ELSE FALSE

\* api.ts:60: is a timer set for the next entry
SchedulesDrain_Never(q) == FALSE
SchedulesDrain(q) == Len(q) > 0

\* processRequestQueue resumes after `await nextRequest()` (api.ts:58-62)
QueueResume(id) ==
    /\ id \in DOMAIN exec
    /\ exec[id].phase = "settled"
    /\ exec' = [x \in DOMAIN exec \ {id} |-> exec[x]]
    /\ isProcessingQueue' = StillProcessingAfter(settled[id])
    /\ drainTimers' = IF SchedulesDrain(requestQueue) /\ ~isProcessingQueue'
                      THEN drainTimers + 1 ELSE drainTimers
    /\ qev' = "resumed"
    /\ UNCHANGED <<requestQueue, rateLimitDelay, settled, enqueued, startOrder>>
    /\ UNCHANGED svars

----------------------------------------------------------------------------
(* Sync engine: data *)

MaxGames == 2           \* distinct games the feed can mention
MaxDays == 2            \* largest configurable backfillDays
MaxEntries == 2         \* duel events per feed page
MaxPasses == 2          \* sync invocations explored
MaxSeqLen == 2          \* longest rating sequence explored
maxPages == 2           \* api.ts:339 (default 500), scaled down

FULL_HISTORY_LIMIT == 9999
NULL == -1
\* the rating values the detail records carry
Ratings == {1000}

GameIds == 1..MaxGames
\* entry.time of the feed event of game g, as the instant it denotes
TimeOf(g) == g
\* Date.now(), later than every game
Now == MaxGames + 1

EmptyHistory == [overall |-> <<>>, moving |-> <<>>, noMove |-> <<>>, nmpz |-> <<>>]
HistoryKeys == {"overall", "moving", "noMove", "nmpz"}
\* the default of every GM_getValue(BACKFILL_STATE_KEY, ...) (api.ts:356)
DefaultBackfillState == [lastLimitDays |-> 0, lastSyncTimestamp |-> NULL, ended |-> FALSE]

SettingsSpace == [backfillFullHistory : BOOLEAN, backfillDays : 1..MaxDays]
NoSettings == [backfillFullHistory |-> FALSE, backfillDays |-> 0]

\* utils.ts:139-144
getModeKey_Moving(competitiveGameMode) == "moving"
getModeKey(competitiveGameMode) ==
    CASE competitiveGameMode = "StandardDuels" -> "moving"
      [] competitiveGameMode = "NoMoveDuels" -> "noMove"
      [] competitiveGameMode = "NmpzDuels" -> "nmpz"
      [] OTHER -> "none"

(* Feed entries (types/index.ts FeedEntry): payload.form says whether the
   payload arrived as a JSON string, as an object, or as a string that
   JSON.parse rejects *)
NoPayload == [form |-> "object", gameMode |-> "", competitiveGameMode |-> "",
              gameId |-> 0, entries |-> <<>>]
Leaf(g, form, gameMode, competitive) ==
    [type |-> 6, time |-> TimeOf(g),
     payload |-> [form |-> form, gameMode |-> gameMode,
                  competitiveGameMode |-> competitive, gameId |-> g, entries |-> <<>>]]
Container(form, es) ==
    [type |-> 7, time |-> 0,
     payload |-> [form |-> form, gameMode |-> "", competitiveGameMode |-> "",
                  gameId |-> 0, entries |-> es]]
Duel(g) == Leaf(g, "string", "Duels", "StandardDuels")

\* api.ts:218-219
isCompetitiveDuel_AnyDuel(payload) == payload.gameMode = "Duels"
isCompetitiveDuel(payload) ==
    /\ payload.gameMode = "Duels"
    /\ payload.competitiveGameMode # ""
    /\ payload.competitiveGameMode # "None"

\* api.ts:211, 215: JSON.parse throws on the payload of this entry
ParseFails(entry) ==
    /\ entry.type \in {6, 7}
    /\ entry.payload.form = "malformed"

\* api.ts:226-228: the catch inside the loop; rest is what the remaining
\* iterations add to games
OnParseError_Abort(rest) == <<>>
OnParseError(rest) == handleError(rest)

\* api.ts:203-233; a game is kept as [time, gameId], the fields read later
RECURSIVE extractDuelGamesFromFeed(_)
extractDuelGamesFromFeed(entries) ==
    IF entries = <<>> THEN <<>>
    ELSE LET entry == Head(entries)
             rest == extractDuelGamesFromFeed(Tail(entries))
             here ==
               IF entry.type = 7 /\ entry.payload.form # "object"
               THEN extractDuelGamesFromFeed(entry.payload.entries)
               ELSE IF entry.type = 6
               THEN IF isCompetitiveDuel(entry.payload)
                    THEN <<[time |-> entry.time, gameId |-> entry.payload.gameId]>>
                    ELSE <<>>
               ELSE <<>>
         IN IF ParseFails(entry) THEN OnParseError(rest) ELSE here \o rest

Front(s) == SubSeq(s, 1, Len(s) - 1)
Last(s) == s[Len(s)]

\* Array.prototype.sort is stable: x goes behind the entries it does not precede
RECURSIVE InsertAscending(_, _)
InsertAscending(s, x) ==
    IF s = <<>> THEN <<x>>
    ELSE IF Last(s).timestamp <= x.timestamp THEN Append(s, x)
    ELSE Append(InsertAscending(Front(s), x), Last(s))

RECURSIVE SortAscending(_)
SortAscending(s) ==
    IF s = <<>> THEN <<>> ELSE InsertAscending(SortAscending(Front(s)), Last(s))

\* api.ts:301-305: the per-sequence sort by timestamp
SortByTimestamp_Unsorted(s) == s
SortByTimestamp(s) == SortAscending(s)

RECURSIVE InsertDescending(_, _)
InsertDescending(s, x) ==
    IF s = <<>> THEN <<x>>
    ELSE IF Last(s).time >= x.time THEN Append(s, x)
    ELSE Append(InsertDescending(Front(s), x), Last(s))

\* api.ts:262: newest first
RECURSIVE SortNewestFirst(_)
SortNewestFirst(s) ==
    IF s = <<>> THEN <<>> ELSE InsertDescending(SortNewestFirst(Front(s)), Last(s))

IdsOf(s) == {s[k].gameId : k \in 1..Len(s)}
CountOf(s, g) == Cardinality({k \in 1..Len(s) : s[k].gameId = g})
IsSorted(s) == \A k \in 1..(Len(s) - 1) : s[k].timestamp <= s[k + 1].timestamp

\* api.ts:353 / 255: the ids of the stored overall points
ExistingGameIds_Empty(h) == {}
ExistingGameIds(h) == IdsOf(h.overall)

\* api.ts:266
IsKnownGame_Never(gameIds, g) == FALSE
IsKnownGame(gameIds, g) == g \in gameIds

\* api.ts:386, 407, 440: stop once a known game was met and history end was reached
StopOnKnown_Never(found, ended) == FALSE
StopOnKnown(found, ended) == found /\ ended

\* api.ts:531-533: cutoffDate, an instant, or NULL for a full-history sync
CutoffDate(s) == IF ~s.backfillFullHistory THEN Now - s.backfillDays ELSE NULL

\* api.ts:392-395, 447-450
PastCutoff_Never(cutoff, h) == FALSE
PastCutoff(cutoff, h) ==
    /\ cutoff # NULL
    /\ h.overall # <<>>
    /\ h.overall[1].timestamp < cutoff

\* the oldest stored overall point lies before the cutoff
OldestBeforeCutoff(cutoff, h) ==
    /\ cutoff # NULL
    /\ \E k \in 1..Len(h.overall) : h.overall[k].timestamp < cutoff

\* api.ts:577
LimitDays_DaysOnly(s) == s.backfillDays
LimitDays(s) == IF s.backfillFullHistory THEN FULL_HISTORY_LIMIT ELSE s.backfillDays

\* api.ts:579
EndedAfterPass_Previous(isBackfill, reachedEnd, previousEnded) == previousEnded
EndedAfterPass(isBackfill, reachedEnd, previousEnded) ==
    IF isBackfill THEN reachedEnd ELSE (IF reachedEnd THEN TRUE ELSE previousEnded)

(* Detail records (types/index.ts DuelResponse) as processGames reads them *)
NoDuel == [kind |-> "null", gameMode |-> "", ratingAfter |-> NULL,
           gameModeRatingAfter |-> NULL]
NoDetail == [NoDuel EXCEPT !.kind = "none"]
Progress(mode, ratingAfter, gameModeRatingAfter) ==
    [kind |-> "progress", gameMode |-> mode, ratingAfter |-> ratingAfter,
     gameModeRatingAfter |-> gameModeRatingAfter]
\* fetch failed, no teams array, player not in the teams, player without
\* rankedSystemProgress, and progress records of every mode
DuelResponses ==
    {[NoDuel EXCEPT !.kind = k] : k \in {"null", "noTeams", "noPlayer", "noProgress"}}
    \cup {Progress("StandardDuels", r, m) : r, m \in Ratings \cup {NULL}}
    \cup UNION {{Progress("NoMoveDuels", r, r), Progress("NmpzDuels", r, r),
                 Progress("TeamDuels", r, NULL), Progress("TeamDuels", r, r)} : r \in Ratings}

\* api.ts:283-284: the tracked player's rankedSystemProgress, if any
HasProgress_Any(d) == TRUE
HasProgress(d) == d.kind = "progress"

\* api.ts:289-305: push the game's points and sort every sequence
MergeGame(h, game, d) ==
    LET modeKey == getModeKey(d.gameMode)
        pt(r) == [timestamp |-> game.time, gameId |-> game.gameId, rating |-> r]
        pushed == [k \in HistoryKeys |->
                     IF k = "overall"
                     THEN IF d.ratingAfter # NULL
                          THEN Append(h[k], pt(d.ratingAfter)) ELSE h[k]
                     ELSE IF k = modeKey /\ d.gameModeRatingAfter # NULL
                          THEN Append(h[k], pt(d.gameModeRatingAfter)) ELSE h[k]]
    IN [k \in HistoryKeys |-> SortByTimestamp(pushed[k])]

(* Feed page responses: fetchApi resolves to null, or to a page *)
LeafLists == UNION {[1..n -> GameIds] : n \in 0..MaxEntries}
PageEntries ==
    {[k \in 1..Len(l) |-> Duel(l[k])] : l \in LeafLists}
    \cup {<<Container("string", <<Duel(1), Container("string", <<Duel(MaxGames)>>)>>)>>,
          <<Leaf(1, "malformed", "Duels", "StandardDuels"), Duel(MaxGames)>>,
          <<Leaf(1, "object", "Duels", "None"), Leaf(MaxGames, "object", "Duels", "NmpzDuels")>>}
NoPage == [ok |-> FALSE, entries |-> <<>>, paginationToken |-> FALSE]
FeedResponses ==
    {NoPage} \cup [ok : {TRUE}, entries : PageEntries, paginationToken : BOOLEAN]

(* extractDuelGamesFromFeed on its own (api.ts:203-233): entry lists with
   leaves of every kind, in containers of every payload form, nested twice *)
OtherEntry == [type |-> 1, time |-> 0, payload |-> NoPayload]
BadLeaf == Leaf(1, "malformed", "", "")
ExtractLeaves ==
    {Duel(1),
     Leaf(MaxGames, "object", "Duels", "NmpzDuels"),
     Leaf(1, "string", "Duels", "None"),
     Leaf(MaxGames, "object", "Duels", ""),
     Leaf(1, "string", "TeamDuels", "StandardDuels"),
     BadLeaf,
     OtherEntry}
ExtractLists == UNION {[1..n -> ExtractLeaves] : n \in 0..MaxEntries}
Containers(es) ==
    {Container("string", es), Container("object", es), Container("malformed", <<>>)}
ExtractContainers ==
    LET inner == UNION {Containers(l) : l \in ExtractLists}
        outer == UNION {Containers(<<c>> \o t) :
                           c \in inner, t \in {<<>>, <<Duel(MaxGames)>>}}
    IN inner \cup outer
ExtractInputs ==
    ExtractLists
    \cup {<<c>> : c \in ExtractContainers}
    \cup UNION {{<<c, l>>, <<l, c>>} : c \in ExtractContainers, l \in {Duel(1), BadLeaf}}

----------------------------------------------------------------------------
(* Sync engine: one pass (api.ts:244-594) *)

\* the locals of syncRatingHistory / processFeedPages / processGames while the
\* pass is suspended in a fetchApi or sleep; known, pageNo, reason, details and
\* last record what happened and are read by no step
IdlePass ==
    [pc |-> "idle",
     isBackfill |-> FALSE,          \* api.ts:516
     startEnded |-> FALSE,          \* api.ts:528 backfillState.ended
     ended |-> FALSE,               \* api.ts:356 backfillState.ended
     cutoffDate |-> NULL,           \* api.ts:531
     existingGameIds |-> {},        \* api.ts:353
     paginationToken |-> FALSE,     \* api.ts:345 (present or not)
     newDataAdded |-> FALSE,        \* api.ts:346
     pagesProcessed |-> 0,          \* api.ts:347
     reachedEnd |-> FALSE,          \* api.ts:348
     foundExistingGame |-> FALSE,   \* api.ts:349
     first |-> TRUE,                \* in the first-page code (365-402) or the loop
     pageToken |-> FALSE,           \* the page's own paginationToken
     duelGames |-> <<>>,            \* api.ts:259 what is left of the for loop
     pgNew |-> FALSE,               \* api.ts:256
     pgFound |-> FALSE,             \* api.ts:257
     storedData |-> EmptyHistory,   \* api.ts:252
     known |-> 0,                   \* first page holding a game of the stored history
     pageNo |-> 0,                  \* pages requested so far
     details |-> 0,                 \* detail requests issued so far
     last |-> NoDetail,             \* the detail record this step received
     reason |-> "none"]

NoEvent ==
    [type |-> "init", reason |-> "none", reachedEnd |-> FALSE, page |-> 0,
     first |-> FALSE, token |-> FALSE, found |-> FALSE, ended |-> FALSE,
     cutoff |-> FALSE, past |-> FALSE, isBackfill |-> FALSE,
     details |-> 0, last |-> NoDetail]
Event(t) == [NoEvent EXCEPT !.type = t]

Return(q, reachedEnd, reason) ==
    [q EXCEPT !.pc = "stopped", !.reachedEnd = reachedEnd, !.reason = reason]
Break(q, reason) == [q EXCEPT !.pc = "stopped", !.reason = reason]

\* api.ts:405: the page cap of the while loop
WithinPageCap_Unbounded(pagesProcessed) == TRUE
WithinPageCap_OneMore(pagesProcessed) == pagesProcessed <= maxPages
WithinPageCap(pagesProcessed) == pagesProcessed < maxPages

\* api.ts:405-419: the loop head, up to the fetch of the next page
LoopHead(q) ==
    IF q.paginationToken /\ WithinPageCap(q.pagesProcessed)
    THEN IF StopOnKnown(q.foundExistingGame, q.ended)
         THEN Break(q, "known")
         ELSE [q EXCEPT !.pc = "fetchPage", !.pagesProcessed = @ + 1,
                        !.pageNo = @ + 1, !.first = FALSE]
    ELSE Break(q, "maxPages")

\* api.ts:374-402: after processGames of the first page
AfterFirstPage(q, h) ==
    LET q1 == [q EXCEPT !.newDataAdded = q.pgNew,
                        !.foundExistingGame = q.pgFound,
                        !.paginationToken = q.pageToken]
    IN IF ~q1.paginationToken THEN Return(q1, TRUE, "noToken")
       ELSE IF StopOnKnown(q1.foundExistingGame, q1.ended) THEN Return(q1, TRUE, "known")
       ELSE IF PastCutoff(q1.cutoffDate, h) THEN Return(q1, FALSE, "cutoff")
       ELSE LoopHead(q1)

\* api.ts:428-469: after processGames of a later page
AfterLaterPage(q, h) ==
    LET q1 == [q EXCEPT !.newDataAdded = @ \/ q.pgNew,
                        !.foundExistingGame = @ \/ q.pgFound]
    IN IF StopOnKnown(q.pgFound, q1.ended) THEN Break(q1, "known")
       ELSE IF PastCutoff(q1.cutoffDate, h)
            THEN Break([q1 EXCEPT !.reachedEnd = FALSE], "cutoff")
       ELSE LET q2 == [q1 EXCEPT !.paginationToken = q.pageToken]
            IN IF ~q2.paginationToken
               THEN Break([q2 EXCEPT !.reachedEnd = TRUE], "noToken")
               ELSE [q2 EXCEPT !.pc = "sleep"]

\* api.ts:264-276: the for loop up to the next detail request, or to its end
RECURSIVE NextGame(_, _)
NextGame(q, h) ==
    IF q.duelGames = <<>>
    THEN IF q.first THEN AfterFirstPage(q, h) ELSE AfterLaterPage(q, h)
    ELSE LET gameId == Head(q.duelGames).gameId
             q0 == [q EXCEPT !.known = IF @ = 0 /\ gameId \in IdsOf(h.overall)
                                       THEN q.pageNo ELSE @]
         IN IF IsKnownGame(q.existingGameIds, gameId)
            THEN NextGame([q0 EXCEPT !.duelGames = Tail(@), !.pgFound = TRUE], h)
            ELSE [q0 EXCEPT !.pc = "fetchDuel", !.details = @ + 1]

\* api.ts:252-262: processGames is entered with a page's entries
EnterProcessGames(q, h, page) ==
    NextGame([q EXCEPT !.storedData = h, !.pgNew = FALSE, !.pgFound = FALSE,
                       !.pageToken = page.paginationToken,
                       !.duelGames = SortNewestFirst(extractDuelGamesFromFeed(page.entries))],
             h)

\* api.ts:516-366: syncRatingHistory up to the request for the first page
EnterSync(isBackfill, s, bs, h) ==
    [IdlePass EXCEPT !.pc = "fetchFirst",
                     !.isBackfill = isBackfill,
                     !.startEnded = bs.ended,
                     !.ended = bs.ended,
                     !.cutoffDate = CutoffDate(s),
                     !.existingGameIds = ExistingGameIds(h),
                     !.pageNo = 1]

\* a sync pass is running: syncRatingHistory has been entered and has not
\* returned (api.ts:505-594)
PassRunning == p.pc \notin {"idle", "render"}

\* index.ts:59-61: checkForUpdatesCallback renders the graph once more when
\* the update check has added data; backfillHistory does not (index.ts:36-43)
RendersAfterSync(isBackfill, newDataAdded) == ~isBackfill /\ newDataAdded

\* what a step of the pass leaves behind: the pass has stopped (api.ts:559-585),
\* has thrown into the catch of api.ts:586-593, or is suspended again
Conclude(q, h, thrown) ==
    /\ storedHistory' = h
    /\ IF thrown
       THEN /\ p' = IdlePass
            /\ isSyncing' = FALSE
            /\ activePasses' = activePasses - 1
            /\ ev' = [Event("failed") EXCEPT !.isBackfill = q.isBackfill,
                                              !.details = q.details, !.last = q.last]
            /\ UNCHANGED backfillStateStore
       ELSE IF q.pc = "stopped"
       THEN /\ IF RendersAfterSync(q.isBackfill, q.newDataAdded)
               THEN /\ p' = [IdlePass EXCEPT !.pc = "render"]
                    /\ UNCHANGED isSyncing
               ELSE /\ p' = IdlePass
                    /\ isSyncing' = FALSE
            /\ activePasses' = activePasses - 1
            /\ backfillStateStore' =
                 [lastLimitDays |-> LimitDays(settings),
                  lastSyncTimestamp |-> Now,
                  ended |-> EndedAfterPass(q.isBackfill, q.reachedEnd, q.startEnded)]
            /\ ev' = [type |-> "stopped", reason |-> q.reason,
                      reachedEnd |-> q.reachedEnd, page |-> q.pageNo,
                      first |-> q.first, token |-> q.pageToken,
                      found |-> q.pgFound, ended |-> q.ended,
                      cutoff |-> q.cutoffDate # NULL,
                      past |-> OldestBeforeCutoff(q.cutoffDate, h),
                      isBackfill |-> q.isBackfill,
                      details |-> q.details, last |-> q.last]
       ELSE /\ p' = [q EXCEPT !.last = NoDetail]
            /\ ev' = [Event(q.pc) EXCEPT !.details = q.details, !.last = q.last]
            /\ UNCHANGED <<isSyncing, activePasses, backfillStateStore>>
    /\ UNCHANGED <<settings, oldSettings, userId, passes>>
    /\ UNCHANGED qvars

\* index.ts:59-62: the flag once `await renderGraph(await getStoredData(),
\* settings)` is over; an exception leaves checkForUpdatesCallback before
\* `isSyncing = false`
SyncingAfterRender(flag, thrown) == IF thrown THEN flag ELSE FALSE

\* the rendering that follows an update check returns or throws
RenderDone(thrown) ==
    /\ p.pc = "render"
    /\ p' = IdlePass
    /\ isSyncing' = SyncingAfterRender(isSyncing, thrown)
    /\ ev' = Event(IF thrown THEN "renderFailed" ELSE "rendered")
    /\ UNCHANGED <<storedHistory, backfillStateStore, settings, oldSettings, userId,
                   activePasses, passes>>
    /\ UNCHANGED qvars

\* api.ts:367-370, 421-424: the page's fetchApi resolved to null; the pass
\* stops with reachedEnd as it stands
OnFetchFailed_ReachedEnd(q) ==
    Return([q EXCEPT !.pageToken = FALSE, !.pgFound = FALSE], TRUE, "fetchFailed")
OnFetchFailed(q) ==
    Break([q EXCEPT !.pageToken = FALSE, !.pgFound = FALSE], "fetchFailed")

\* the first page's fetchApi settles (api.ts:366-373)
FirstPageFetched(page) ==
    /\ p.pc = "fetchFirst"
    /\ IF ~page.ok
       THEN Conclude(OnFetchFailed(p), storedHistory, FALSE)
       ELSE Conclude(EnterProcessGames(p, storedHistory, page), storedHistory, FALSE)

\* a later page's fetchApi settles (api.ts:416-427)
NextPageFetched(page) ==
    /\ p.pc = "fetchPage"
    /\ IF ~page.ok
       THEN Conclude(OnFetchFailed(p), storedHistory, FALSE)
       ELSE Conclude(EnterProcessGames(p, storedHistory, page), storedHistory, FALSE)

\* sleep(apiRequestDelay) between two pages elapses (api.ts:469, 405)
PageSleepDone ==
    /\ p.pc = "sleep"
    /\ Conclude(LoopHead(p), storedHistory, FALSE)

\* utils.ts:130-132, called at api.ts:306: the store holds data from then on
setStoredData_Deferred(stored, data) == stored
setStoredData(stored, data) == data

\* the detail request of the current game settles (api.ts:273-313)
DuelFetched(d) ==
    /\ p.pc = "fetchDuel"
    /\ LET game == Head(p.duelGames)
           q == [p EXCEPT !.duelGames = Tail(@), !.last = d]
       IN IF d.kind = "null"
          THEN Conclude(NextGame(q, storedHistory), storedHistory, FALSE)
          ELSE IF d.kind = "noTeams"
          THEN \* duel.teams.flatMap throws (api.ts:283)
               Conclude(q, storedHistory, TRUE)
          ELSE IF ~HasProgress(d)
          THEN Conclude(NextGame(q, storedHistory), storedHistory, FALSE)
          ELSE LET h == MergeGame(p.storedData, game, d)
                   q1 == [q EXCEPT !.storedData = h, !.pgNew = TRUE,
                                   !.existingGameIds = @ \cup {game.gameId}]
                   stored == setStoredData(storedHistory, h)
               IN /\ \A k \in HistoryKeys : Len(h[k]) <= MaxSeqLen
                  /\ IF stored.overall = <<>>
                     THEN \* onGameProcessed reads data.overall[0].timestamp (api.ts:549-552)
                          Conclude(q1, stored, TRUE)
                     ELSE Conclude(NextGame(q1, stored), stored, FALSE)

----------------------------------------------------------------------------
(* Sync engine: entry points (index.ts) *)

User == "user"
NoUserId == ""

\* index.ts:29, 51: the early return of backfillHistory / checkForUpdatesCallback
SyncRefused_NoFlag(flag, uid) == uid = NoUserId
SyncRefused(flag, uid) == flag \/ uid = NoUserId

\* backfillHistory() (index.ts:28-44) or checkForUpdatesCallback() (index.ts:50-64),
\* called with the settings s and the stored SyncState bs in place
SyncCall(isBackfill, uid, s, bs) ==
    /\ passes < MaxPasses
    /\ passes' = passes + 1
    /\ IF SyncRefused(isSyncing, uid)
       THEN /\ ev' = [Event("dropped") EXCEPT !.isBackfill = isBackfill]
            /\ UNCHANGED <<isSyncing, activePasses, p>>
       ELSE /\ isSyncing' = TRUE
            /\ activePasses' = activePasses + 1
            /\ p' = EnterSync(isBackfill, s, bs, storedHistory)
            /\ ev' = [Event("started") EXCEPT !.isBackfill = isBackfill]
    /\ UNCHANGED storedHistory
    /\ UNCHANGED qvars

\* initScript (index.ts:251-287): on page load, and again whenever the user
\* navigates back to the multiplayer page (index.ts:300-304)
InitScript ==
    /\ userId' = User
    /\ LET needsBackfill == /\ storedHistory.overall = <<>>
                            /\ backfillStateStore.lastSyncTimestamp = NULL
                            /\ ~backfillStateStore.ended
       IN SyncCall(needsBackfill, User, settings, backfillStateStore)
    /\ UNCHANGED <<backfillStateStore, settings, oldSettings>>

\* the resync button (ui.ts:108-110 -> index.ts:268)
ResyncClick ==
    /\ userId # NoUserId
    /\ SyncCall(TRUE, userId, settings, backfillStateStore)
    /\ UNCHANGED <<backfillStateStore, settings, oldSettings, userId>>

\* the auto-refresh interval (ui.ts:549-552) or the Statistics button (index.ts:135)
RefreshTick ==
    /\ userId # NoUserId
    /\ SyncCall(FALSE, userId, settings, backfillStateStore)
    /\ UNCHANGED <<backfillStateStore, settings, oldSettings, userId>>

\* the settings panel is rendered and attachHandlers runs (index.ts:157-159)
OpenSettingsPanel ==
    /\ userId # NoUserId
    /\ oldSettings # settings
    /\ oldSettings' = settings
    /\ ev' = Event("panel")
    /\ UNCHANGED <<storedHistory, backfillStateStore, settings, userId, isSyncing,
                   activePasses, passes, p>>
    /\ UNCHANGED qvars

\* an input of the settings panel changes (index.ts:185-239)
SettingsChange(s) ==
    /\ userId # NoUserId
    /\ oldSettings # NoSettings
    /\ settings' = s
    /\ LET newLimit == LimitDays(s)
           oldLimit == LimitDays(oldSettings)
           changedToFullHistory == s.backfillFullHistory /\ ~oldSettings.backfillFullHistory
           reset == [backfillStateStore EXCEPT !.ended = FALSE]
       IN IF changedToFullHistory
          THEN /\ backfillStateStore' = reset
               /\ SyncCall(TRUE, userId, s, reset)
          ELSE IF newLimit > oldLimit
          THEN LET bs == IF backfillStateStore.ended THEN reset ELSE backfillStateStore
               IN /\ backfillStateStore' = bs
                  /\ SyncCall(TRUE, userId, s, bs)
          ELSE /\ ev' = Event("settings")
               /\ UNCHANGED <<storedHistory, backfillStateStore, isSyncing,
                              activePasses, passes, p>>
               /\ UNCHANGED qvars
    /\ UNCHANGED <<oldSettings, userId>>

\* the page is left or reloaded: the closure's state is gone, the GM store stays
Reload ==
    /\ userId # NoUserId
    /\ userId' = NoUserId
    /\ isSyncing' = FALSE
    /\ activePasses' = 0
    /\ p' = IdlePass
    /\ oldSettings' = NoSettings
    /\ ev' = Event("reload")
    /\ UNCHANGED <<storedHistory, backfillStateStore, settings, passes>>
    /\ UNCHANGED qvars

\* the clear-data button (index.ts:162-170): defaults are stored, the page reloads
ClearData ==
    /\ userId # NoUserId
    /\ oldSettings # NoSettings
    /\ storedHistory # EmptyHistory
    /\ storedHistory' = EmptyHistory
    /\ backfillStateStore' = DefaultBackfillState
    /\ userId' = NoUserId
    /\ isSyncing' = FALSE
    /\ activePasses' = 0
    /\ p' = IdlePass
    /\ oldSettings' = NoSettings
    /\ ev' = Event("cleared")
    /\ UNCHANGED <<settings, passes>>
    /\ UNCHANGED qvars

----------------------------------------------------------------------------
SyncIdle ==
    /\ storedHistory = EmptyHistory
    /\ backfillStateStore = DefaultBackfillState
    /\ oldSettings = NoSettings
    /\ userId = NoUserId
    /\ isSyncing = FALSE
    /\ activePasses = 0
    /\ passes = 0
    /\ p = IdlePass
    /\ ev = NoEvent

QIdle ==
    /\ requestQueue = <<>>
    /\ isProcessingQueue = FALSE
    /\ rateLimitDelay = 0
    /\ drainTimers = 0
    /\ exec = <<>>
    /\ settled = <<>>
    /\ enqueued = 0
    /\ startOrder = <<>>
    /\ qev = "init"

QInit ==
    /\ QIdle
    /\ SyncIdle
    /\ settings = NoSettings

QNext ==
    \/ FetchApi
    \/ DrainTimer
    \/ \E id \in 1..MaxRequests : PreDelayDone(id)
    \/ \E id \in 1..MaxRequests, o \in HttpOutcomes : HttpDone(id, o)
    \/ \E id \in 1..MaxRequests : RetryWaitDone(id)
    \/ \E id \in 1..MaxRequests : QueueResume(id)

SpecQueue == QInit /\ [][QNext]_vars

\* what happens without a new call of fetchApi: timers fire, attempts end,
\* continuations run
QueueProgress ==
    \/ DrainTimer
    \/ \E id \in 1..MaxRequests : PreDelayDone(id)
    \/ \E id \in 1..MaxRequests, o \in HttpOutcomes : HttpDone(id, o)
    \/ \E id \in 1..MaxRequests : RetryWaitDone(id)
    \/ \E id \in 1..MaxRequests : QueueResume(id)

\* time passes and every pending timer and request comes to its end; calls of
\* fetchApi are up to the callers
SpecQueueFair == SpecQueue /\ WF_vars(QueueProgress)

(* The queue with tasks of any behaviour: enqueueRequest takes any requestFn
   (api.ts:78), and the task made of it may fail while it runs *)
TaskFails(id, how) ==
    /\ ~ResumePending
    /\ id \in DOMAIN exec
    /\ exec[id].phase # "settled"
    /\ exec' = [exec EXCEPT ![id].phase = "settled"]
    /\ settled' = (id :> how) @@ settled
    /\ qev' = how
    /\ UNCHANGED <<requestQueue, isProcessingQueue, rateLimitDelay, drainTimers,
                   enqueued, startOrder>>
    /\ UNCHANGED svars

\* what happens without a new call of fetchApi: timers fire, attempts end,
\* continuations run
TaskProgress ==
    \/ DrainTimer
    \/ \E id \in 1..MaxRequests : PreDelayDone(id)
    \/ \E id \in 1..MaxRequests, o \in HttpOutcomes : HttpDone(id, o)
    \/ \E id \in 1..MaxRequests : RetryWaitDone(id)
    \/ \E id \in 1..MaxRequests : QueueResume(id)
    \/ \E id \in 1..MaxRequests, how \in TaskFailures : TaskFails(id, how)

TaskNext == FetchApi \/ TaskProgress

SpecTasks == QInit /\ [][TaskNext]_vars
SpecTasksFair == SpecTasks /\ WF_vars(TaskProgress)

(* The shared penalty over arbitrarily many requests: fetchApi called by a
   caller that awaits every request before it makes the next, as
   processFeedPages and processGames do. The request is started at once
   (api.ts:84-86, 40-52); its id is reused and the bookkeeping of the order
   of requests (enqueued, startOrder) is left alone. *)
SerialFetch ==
    /\ exec = <<>>
    /\ CanProcess(isProcessingQueue, <<1>>)
    /\ isProcessingQueue' = TRUE
    /\ rateLimitDelay' = CoolDown(rateLimitDelay)
    /\ exec' = (1 :> NewExec)
    /\ qev' = "startByEnqueue"
    /\ UNCHANGED <<requestQueue, drainTimers, settled, enqueued, startOrder>>
    /\ UNCHANGED svars

PenaltyNext ==
    \/ SerialFetch
    \/ PreDelayDone(1)
    \/ \E o \in HttpOutcomes : HttpDone(1, o)
    \/ RetryWaitDone(1)
    \/ QueueResume(1)

SpecPenalty == QInit /\ [][PenaltyNext]_vars

\* timers fire, every attempt returns an outcome, and the caller keeps on
\* making requests
SpecPenaltyFair == SpecPenalty /\ WF_vars(PenaltyNext)

(* extractDuelGamesFromFeed applied to one entry list (api.ts:259); p holds
   the argument and, once the call has returned, its result *)
ExtractInit ==
    /\ QIdle
    /\ storedHistory = EmptyHistory
    /\ backfillStateStore = DefaultBackfillState
    /\ settings = NoSettings
    /\ oldSettings = NoSettings
    /\ userId = NoUserId
    /\ isSyncing = FALSE
    /\ activePasses = 0
    /\ passes = 0
    /\ ev = NoEvent
    /\ \E es \in ExtractInputs : p = [pc |-> "feed", entries |-> es, games |-> <<>>]

ExtractGames ==
    /\ p.pc = "feed"
    /\ p' = [p EXCEPT !.pc = "extracted", !.games = extractDuelGamesFromFeed(p.entries)]
    /\ UNCHANGED <<storedHistory, backfillStateStore, settings, oldSettings, userId,
                   isSyncing, activePasses, passes, ev>>
    /\ UNCHANGED qvars

SpecExtract == ExtractInit /\ [][ExtractGames]_vars

\* a fresh installation: nothing stored yet, any settings loaded
Init ==
    /\ QIdle
    /\ SyncIdle
    /\ settings \in SettingsSpace

Next ==
    \/ InitScript
    \/ ResyncClick
    \/ RefreshTick
    \/ Reload
    \/ \E page \in FeedResponses : FirstPageFetched(page)
    \/ \E page \in FeedResponses : NextPageFetched(page)
    \/ PageSleepDone
    \/ \E thrown \in BOOLEAN : RenderDone(thrown)
    \/ \E d \in DuelResponses : DuelFetched(d)

Spec == Init /\ [][Next]_vars

(* The passes against one feed that does not change: page k holds the duel
   event of game MaxGames + 1 - k, newest first, and returns a pagination
   token; the page after the oldest game is empty and returns none. Every
   game has a detail record with the tracked player's ratings. A request
   may still fail and resolve to null. *)
FeedPage(k) ==
    [ok |-> TRUE,
     entries |-> IF k <= MaxGames THEN <<Duel(MaxGames + 1 - k)>> ELSE <<>>,
     paginationToken |-> k <= MaxGames]
FeedDetail == Progress("StandardDuels", 1000, 1000)

FeedNext ==
    \/ InitScript
    \/ ResyncClick
    \/ RefreshTick
    \/ Reload
    \/ \E page \in {NoPage, FeedPage(1)} : FirstPageFetched(page)
    \/ \E page \in {NoPage, FeedPage(p.pageNo)} : NextPageFetched(page)
    \/ PageSleepDone
    \/ \E thrown \in BOOLEAN : RenderDone(thrown)
    \/ \E d \in {NoDuel, FeedDetail} : DuelFetched(d)

SpecFeed == Init /\ [][FeedNext]_vars

(* Every entry point, the settings panel included, over a small feed *)
SmallFeedResponses ==
    {NoPage} \cup [ok : {TRUE}, entries : {<<>>, <<Duel(1)>>}, paginationToken : BOOLEAN]
SmallDuelResponses == {NoDuel} \cup {Progress("StandardDuels", r, r) : r \in Ratings}

NextAll ==
    \/ InitScript
    \/ ResyncClick
    \/ RefreshTick
    \/ OpenSettingsPanel
    \/ \E s \in SettingsSpace : SettingsChange(s)
    \/ Reload
    \/ ClearData
    \/ \E page \in SmallFeedResponses : FirstPageFetched(page)
    \/ \E page \in SmallFeedResponses : NextPageFetched(page)
    \/ PageSleepDone
    \/ \E thrown \in BOOLEAN : RenderDone(thrown)
    \/ \E d \in SmallDuelResponses : DuelFetched(d)

SpecAll == Init /\ [][NextAll]_vars

(* The settings panel of a script that is up: initScript has run (index.ts:
   251-287) and its backfill pass has met the end of an empty feed, so the
   store is empty and SyncState says ended; the invocations that follow are
   counted from here *)
PanelInit ==
    /\ QIdle
    /\ settings \in SettingsSpace
    /\ storedHistory = EmptyHistory
    /\ backfillStateStore =
          [lastLimitDays |-> LimitDays(settings), lastSyncTimestamp |-> Now,
           ended |-> EndedAfterPass(TRUE, TRUE, FALSE)]
    /\ oldSettings = NoSettings
    /\ userId = User
    /\ isSyncing = FALSE
    /\ activePasses = 0
    /\ passes = 0
    /\ p = IdlePass
    /\ ev = NoEvent

SpecPanel == PanelInit /\ [][NextAll]_vars

(* The stop rules of processFeedPages over every feed page, with detail
   records that are missing, make processGames throw, or carry both ratings *)
StopsDuelResponses == SmallDuelResponses \cup {[NoDuel EXCEPT !.kind = "noTeams"]}

NextStops ==
    \/ InitScript
    \/ ResyncClick
    \/ RefreshTick
    \/ Reload
    \/ \E page \in FeedResponses : FirstPageFetched(page)
    \/ \E page \in FeedResponses : NextPageFetched(page)
    \/ PageSleepDone
    \/ \E thrown \in BOOLEAN : RenderDone(thrown)
    \/ \E d \in StopsDuelResponses : DuelFetched(d)

SpecStops == Init /\ [][NextStops]_vars

(* The course of a pass over a small feed: a page holds game 1 or nothing,
   with or without a pagination token, or its request fails; a detail
   record is missing, makes processGames throw, or carries both ratings *)
PassProgress ==
    \/ \E page \in SmallFeedResponses : FirstPageFetched(page)
    \/ \E page \in SmallFeedResponses : NextPageFetched(page)
    \/ PageSleepDone
    \/ \E d \in StopsDuelResponses : DuelFetched(d)
    \/ \E thrown \in BOOLEAN : RenderDone(thrown)

NextPass ==
    \/ InitScript
    \/ ResyncClick
    \/ RefreshTick
    \/ Reload
    \/ PassProgress

SpecPass == Init /\ [][NextPass]_vars

\* every request of a pass settles (api.ts:120-166) and every sleep
\* elapses; when the page calls for a sync is up to the user
SpecPassFair == SpecPass /\ WF_vars(PassProgress)

----------------------------------------------------------------------------
\* C1: at every moment at most one request submitted through fetchApi is
\* executing (pre-delay, attempts and retry waits included), and an HTTP
\* attempt only ever belongs to a request that the queue processor started.
C1_OneAtATime ==
    /\ Cardinality(Executing) <= 1
    /\ \A id \in DOMAIN exec :
          /\ id \in 1..enqueued
          /\ \E k \in 1..Len(startOrder) : startOrder[k] = id
          /\ \A k \in 1..Len(requestQueue) : requestQueue[k] # id

\* a request is in a retry wait while two more are queued behind it
C1_Witness ==
    /\ \E id \in DOMAIN exec : exec[id].phase = "retryWait"
    /\ Len(requestQueue) >= 2

\* C2: requests start executing in exactly the order they were enqueued.
C2_Fifo ==
    /\ \A k \in 1..Len(startOrder) : startOrder[k] = k
    /\ \A k \in 1..Len(requestQueue) : requestQueue[k] = Len(startOrder) + k

\* three requests have started, the last of them by an enqueue that arrived
\* during the gap (a drain timer still pending)
C2_Witness ==
    /\ Len(startOrder) = 3
    /\ qev = "startByEnqueue"
    /\ drainTimers > 0

\* C3: at no time are two sync passes active, and a sync invocation made
\* while a pass is in flight is dropped: it leaves the pass in flight, the
\* in-progress flag and the stored history alone, and the stored SyncState
\* changes in such a step only by the settings handler's own reset of
\* `ended`, which precedes its backfillHistory() call.
C3_SinglePass ==
    /\ [](activePasses <= 1)
    /\ [][ev'.type = "dropped" =>
            /\ isSyncing
            /\ UNCHANGED <<p, isSyncing, activePasses, storedHistory>>
            /\ \/ UNCHANGED backfillStateStore
               \/ /\ settings' # settings
                  /\ backfillStateStore' = [backfillStateStore EXCEPT !.ended = FALSE]]_vars

\* a backfill call was dropped while a pass is waiting for a detail record
C3_Witness ==
    /\ ev.type = "dropped"
    /\ ev.isBackfill
    /\ activePasses = 1
    /\ p.pc = "fetchDuel"

\* C4: no gameId occurs more than once in the persisted overall sequence.
C4_OverallUnique ==
    \A g \in GameIds : CountOf(storedHistory.overall, g) <= 1

\* a second pass has ended on a page that held a game of the stored history
C4_Witness ==
    /\ ev.type = "stopped"
    /\ ev.found
    /\ passes = 2
    /\ Len(storedHistory.overall) = 2

\* C5: no detail request is in flight for a game whose gameId is in the
\* persisted overall sequence, and no step adds a point with such a gameId
\* to any of the four sequences.
C5_KnownNeverRefetched ==
    /\ [](p.pc = "fetchDuel" => Head(p.duelGames).gameId \notin IdsOf(storedHistory.overall))
    /\ [][\A g \in IdsOf(storedHistory.overall) : \A k \in HistoryKeys :
            CountOf(storedHistory'[k], g) <= CountOf(storedHistory[k], g)]_vars

\* a page showed a stored game next to a new one: the stored game was
\* skipped and the detail request of the new one is in flight
C5_Witness ==
    /\ p.pc = "fetchDuel"
    /\ p.pgFound
    /\ p.known > 0

\* C6: each of the four persisted sequences is sorted non-decreasing by
\* timestamp.
C6_Sorted ==
    \A k \in HistoryKeys : IsSorted(storedHistory[k])

\* two games are stored in overall and in moving
C6_Witness ==
    /\ Len(storedHistory.overall) = 2
    /\ Len(storedHistory.moving) = 2
    /\ storedHistory.overall[1].timestamp < storedHistory.overall[2].timestamp

\* C7: with SyncState.ended true at the start of the pass, once page K held
\* a game of the stored history no further page is requested: the pass is
\* never waiting for, or sleeping before, a page after K.
C7_StopAfterKnownPage ==
    (p.ended /\ p.known > 0) =>
        /\ p.pc \notin {"fetchPage", "sleep"}
        /\ p.pageNo = p.known

\* page 2 held a stored game and the pass is still processing that page
C7_Witness ==
    /\ p.ended
    /\ p.known = 2
    /\ p.pc = "fetchDuel"

\* C8: a pass that stops because a page held an already-known gameId while
\* SyncState.ended was true reports reachedEnd = true.
C8_KnownStopReachedEnd ==
    (ev.type = "stopped" /\ ev.reason = "known" /\ ev.ended) => ev.reachedEnd

\* C9: a pass whose last fetched page carried no pagination token stops
\* with reachedEnd = true.
C9_NoTokenReachedEnd ==
    (ev.type = "stopped" /\ ev.reason # "fetchFailed" /\ ~ev.token) => ev.reachedEnd

\* C10 as stated: with a cutoff, once the oldest stored overall point is
\* older than the cutoff after a page that returned a token, no further
\* page is fetched and the pass reports reachedEnd = false.
C10_CutoffStopsFalse ==
    /\ p.pc \in {"fetchPage", "sleep"} => ~OldestBeforeCutoff(p.cutoffDate, storedHistory)
    /\ (ev.type = "stopped" /\ ev.reason # "fetchFailed" /\ ev.token /\ ev.past)
          => ~ev.reachedEnd

\* C10 amended: ... no further page is fetched, and the pass reports
\* reachedEnd = false unless that page was the first page, held an
\* already-known game and SyncState.ended was true (the known-game rule
\* comes first and reports reachedEnd = true).
C10_CutoffStops ==
    /\ p.pc \in {"fetchPage", "sleep"} => ~OldestBeforeCutoff(p.cutoffDate, storedHistory)
    /\ (ev.type = "stopped" /\ ev.reason # "fetchFailed" /\ ev.token /\ ev.past)
          => (ev.reachedEnd <=> (ev.first /\ ev.found /\ ev.ended))

\* a pass was stopped by the cutoff on a later page that returned a token
C10_Witness ==
    /\ ev.type = "stopped"
    /\ ev.reason = "cutoff"
    /\ ev.token
    /\ ~ev.first

\* C11: the SyncState.ended written when a pass stops equals reachedEnd OR the
\* previously persisted ended, whatever kind of invocation started the pass;
\* hence, with no settings change, ended never goes from true to false.
C11_EndedSticky ==
    [][/\ ev'.type = "stopped" =>
             backfillStateStore'.ended = (ev'.reachedEnd \/ backfillStateStore.ended)
       /\ (settings' = settings /\ backfillStateStore.ended) => backfillStateStore'.ended]_vars

\* the user widens the history window: the limit in force grows
Widens == settings' # settings /\ LimitDays(settings') > LimitDays(settings)

\* C12: a step in which the user widens the history window leaves ended =
\* false and a fresh backfill pass started with the new window; and ended
\* only goes from false to true by a pass that ran with the window in force.
C12_WidenResets ==
    [][/\ Widens => /\ ~backfillStateStore'.ended
                    /\ p'.pc = "fetchFirst"
                    /\ p'.isBackfill
                    /\ p'.cutoffDate = CutoffDate(settings')
       /\ (~backfillStateStore.ended /\ backfillStateStore'.ended) =>
             p.cutoffDate = CutoffDate(settings)]_vars

\* C13: when the fetch of a feed page resolves to null the pass is over in
\* that very step (no further page or detail request), it reports
\* reachedEnd = false, and the persisted history is what it was.
C13_FetchFailureStops ==
    [][(ev'.type = "stopped" /\ ev'.reason = "fetchFailed") =>
          /\ ~ev'.reachedEnd
          /\ ~PassRunning'
          /\ storedHistory' = storedHistory]_vars

\* the second page of a pass failed after the first page's game was persisted
C13_Witness ==
    /\ ev.type = "stopped"
    /\ ev.reason = "fetchFailed"
    /\ ev.page = 2
    /\ storedHistory.overall # <<>>
    /\ passes = 1

C15_NoRetryOnOtherStatus ==
    [][/\ qev' = "4xx" =>
             /\ rateLimitDelay' = rateLimitDelay
             /\ \E id \in DOMAIN exec :
                   /\ exec[id].phase = "attempt"
                   /\ exec'[id] = [exec[id] EXCEPT !.phase = "settled"]
                   /\ settled'[id] = "null"
       /\ \A id \in DOMAIN exec :
             (exec[id].phase = "attempt" /\ id \in DOMAIN exec'
                /\ exec'[id].phase = "retryWait") =>
                 qev' \in {"429", "5xx", "error", "errorText429", "timeout"}]_vars

\* a request got a 404-like answer on its first attempt while a penalty was
\* in force
C15_Witness ==
    /\ qev = "4xx"
    /\ rateLimitDelay > 0
    /\ \E id \in DOMAIN exec :
          exec[id].phase = "settled" /\ exec[id].i = 0 /\ settled[id] = "null"

\* C16 as stated: immediately after a 429 has been handled the shared
\* penalty is at least 2,000 ms, whatever it was before.
C16_FloorAfterAny429 ==
    [][qev' = "429" => rateLimitDelay' >= 2000]_vars

\* C16 amended: a 429 doubles the shared penalty up to the cap, a penalty of
\* zero counting as 2,000 ms; the result is at least 2,000 ms when the
\* penalty was zero or at least 1,000 ms, and at least 200 ms in any case.
C16_DoubledWithFloorAtZero ==
    [][qev' = "429" =>
          /\ rateLimitDelay = 0 => rateLimitDelay' = 4000
          /\ rateLimitDelay > 0 =>
                \/ rateLimitDelay' = 2 * rateLimitDelay
                \/ rateLimitDelay' = 15000 /\ 2 * rateLimitDelay > 15000
          /\ (rateLimitDelay = 0 \/ rateLimitDelay >= 1000) => rateLimitDelay' >= 2000
          /\ rateLimitDelay' >= 200]_vars

\* a 429 arrived when the penalty had cooled down to 100 ms
C16_Witness ==
    /\ qev = "429"
    /\ rateLimitDelay = 200

\* C17: the shared penalty always lies in [0, 15000]; every 429 makes it
\* strictly larger while it is below 15,000, and leaves it at 15,000 once
\* it is there.
C17_PenaltyBounded ==
    /\ [](rateLimitDelay >= 0 /\ rateLimitDelay <= 15000)
    /\ [][qev' = "429" =>
             /\ rateLimitDelay < 15000 => rateLimitDelay' > rateLimitDelay
             /\ rateLimitDelay = 15000 => rateLimitDelay' = 15000]_vars

\* a 429 arrived with the penalty at the cap
C17_Witness ==
    /\ qev = "429"
    /\ rateLimitDelay = 15000
    /\ \E id \in DOMAIN exec : exec[id].phase = "settled" /\ exec[id].i = 2

RECURSIVE LeafPaths(_, _)
LeafPaths(entries, forms) ==
    UNION {LET e == entries[k]
           IN IF e.type = 6 THEN {<<k>>}
              ELSE IF e.type = 7 /\ e.payload.form \in forms
                   THEN {<<k>> \o path : path \in LeafPaths(e.payload.entries, forms)}
                   ELSE {}
           : k \in 1..Len(entries)}

RECURSIVE EntryAt(_, _)
EntryAt(entries, path) ==
    IF Len(path) = 1 THEN entries[path[1]]
    ELSE EntryAt(entries[path[1]].payload.entries, Tail(path))

\* the leaf's payload can be read, has gameMode "Duels" and a
\* competitiveGameMode that is present and not "None"
QualifyingLeaf(e) ==
    /\ e.payload.form \in {"string", "object"}
    /\ e.payload.gameMode = "Duels"
    /\ e.payload.competitiveGameMode \notin {"", "None"}

\* games holds one element for every qualifying leaf under containers of the
\* given forms, with that leaf's time and game, and no other element
ExactlyTheLeaves(entries, forms, games) ==
    LET paths == {path \in LeafPaths(entries, forms) : QualifyingLeaf(EntryAt(entries, path))}
        GameOf(path) == [time |-> EntryAt(entries, path).time,
                         gameId |-> EntryAt(entries, path).payload.gameId]
        all == {GameOf(path) : path \in paths} \cup {games[i] : i \in 1..Len(games)}
    IN \A g \in all :
          Cardinality({path \in paths : GameOf(path) = g})
             = Cardinality({i \in 1..Len(games) : games[i] = g})

\* C19 as stated: extractDuelGamesFromFeed returns exactly the qualifying
\* type-6 leaves, each once with its own time, whatever type-7 containers
\* they are nested in, and nothing else.
C19_AllQualifyingLeaves ==
    p.pc = "extracted" => ExactlyTheLeaves(p.entries, {"string", "object"}, p.games)

\* C19 amended: extractDuelGamesFromFeed returns exactly the qualifying
\* type-6 leaves that lie at the top level or inside type-7 containers
\* whose payloads are strings, at any depth, each once with its own time,
\* and nothing else; a type-7 entry whose payload is not a string is
\* skipped with everything in it.
C19_LeavesUnderStringContainers ==
    p.pc = "extracted" => ExactlyTheLeaves(p.entries, {"string"}, p.games)

\* two levels of containers, a qualifying leaf at each level, and leaves
\* that do not qualify beside the innermost one
C19_Witness ==
    /\ p.pc = "extracted"
    /\ Len(p.entries) = 2
    /\ p.entries[1].type = 7
    /\ p.entries[1].payload.form = "string"
    /\ Len(p.entries[1].payload.entries) = 2
    /\ p.entries[1].payload.entries[1].type = 7
    /\ p.entries[1].payload.entries[1].payload.entries
          = <<Leaf(1, "string", "Duels", "None"), Leaf(MaxGames, "object", "Duels", "NmpzDuels")>>
    /\ Len(p.games) = 3

\* an entry list without the entries whose payload cannot be parsed, at
\* every level
RECURSIVE RemoveMalformed(_)
RemoveMalformed(entries) ==
    IF entries = <<>> THEN <<>>
    ELSE LET e == Head(entries)
             rest == RemoveMalformed(Tail(entries))
         IN IF e.payload.form = "malformed" /\ e.type \in {6, 7} THEN rest
            ELSE IF e.type = 7
                 THEN <<Container(e.payload.form, RemoveMalformed(e.payload.entries))>> \o rest
                 ELSE <<e>> \o rest

RECURSIVE DropKnown(_, _)
DropKnown(games, gameIds) ==
    IF games = <<>> THEN <<>>
    ELSE IF Head(games).gameId \in gameIds THEN DropKnown(Tail(games), gameIds)
    ELSE games

\* C21: when the detail request of an event resolves to null, or the
\* tracked player is not among the players, or the player has no
\* rankedSystemProgress, no sequence gets a point, in memory or in the
\* store, the event is not marked as known, the pass does not fail, and the
\* next event of the page that is not yet known is requested.
C21_SkippedEventIsHarmless ==
    [][ev'.last.kind \in {"null", "noPlayer", "noProgress"} =>
          /\ storedHistory' = storedHistory
          /\ ev'.type # "failed"
          /\ ev'.type # "stopped" =>
                /\ p'.storedData = p.storedData
                /\ p'.existingGameIds = p.existingGameIds
                /\ p'.pgNew = p.pgNew
          /\ LET rest == DropKnown(Tail(p.duelGames), p.existingGameIds)
             IN rest # <<>> => p'.pc = "fetchDuel" /\ p'.duelGames = rest]_vars

\* the first event of a page was skipped because the player has no
\* progress data, and the detail record of the second is being requested
C21_Witness ==
    /\ ev.last.kind = "noProgress"
    /\ ev.type = "fetchDuel"
    /\ ev.details = 2
    /\ p.pageNo = 1
    /\ Len(p.duelGames) = 1
    /\ storedHistory = EmptyHistory

\* the sub-mode sequence of a game mode, "none" for a mode without one
SubModeSequence ==
    [mode \in {"StandardDuels", "NoMoveDuels", "NmpzDuels", "TeamDuels"} |->
        CASE mode = "StandardDuels" -> "moving"
          [] mode = "NoMoveDuels" -> "noMove"
          [] mode = "NmpzDuels" -> "nmpz"
          [] OTHER -> "none"]

\* how many points sequence k of the store gains for game g in this step
Gained(k, g) == CountOf(storedHistory'[k], g) - CountOf(storedHistory[k], g)

\* C22: a processed game adds a sub-mode point only to the sequence of its
\* mode (StandardDuels to moving, NoMoveDuels to noMove, NmpzDuels to nmpz),
\* one point if the record has a mode rating; a game of any other mode adds
\* no sub-mode point, only its overall point; no other game gains a point.
C22_ModeMapping ==
    [][\A d \in DuelResponses : (HasProgress(d) /\ DuelFetched(d)) =>
          LET g == Head(p.duelGames).gameId
          IN /\ \A k \in {"moving", "noMove", "nmpz"} :
                   Gained(k, g) = IF k = SubModeSequence[d.gameMode]
                                     /\ d.gameModeRatingAfter # NULL THEN 1 ELSE 0
             /\ Gained("overall", g) = IF d.ratingAfter # NULL THEN 1 ELSE 0
             /\ \A k \in HistoryKeys : \A other \in GameIds \ {g} : Gained(k, other) = 0]_vars

\* a TeamDuels game whose record has both ratings has been merged: an
\* overall point and no sub-mode point
C22_Witness ==
    /\ ev.last \in {Progress("TeamDuels", r, r) : r \in Ratings}
    /\ ev.type # "failed"
    /\ Len(storedHistory.overall) = 1
    /\ storedHistory.moving = <<>>
    /\ storedHistory.noMove = <<>>
    /\ storedHistory.nmpz = <<>>
    /\ p.storedData = storedHistory

\* C23: whenever a pass is suspended after it has loaded the history (in a
\* detail request, in a page request after the first, in the sleep between
\* pages), the store holds every point the pass has appended: no point
\* exists only in memory; and the step that merges a game writes the store.
C23_SavedBeforeNextRequest ==
    /\ [](p.pc \in {"fetchDuel", "fetchPage", "sleep"} => storedHistory = p.storedData)
    /\ [][ev'.last.kind = "progress" =>
             /\ storedHistory' = MergeGame(storedHistory, Head(p.duelGames), ev'.last)
             /\ ev'.type = "fetchDuel" => storedHistory' = p'.storedData]_vars

\* a game has been merged and the detail record of the next game of the
\* same page is being requested
C23_Witness ==
    /\ p.pc = "fetchDuel"
    /\ ev.last.kind = "progress"
    /\ ev.details = 2
    /\ p.pageNo = 1
    /\ Len(storedHistory.overall) = 1
    /\ Len(storedHistory.moving) = 1
    /\ storedHistory = p.storedData

\* C24 as stated: a pass never fetches more feed pages than the page cap,
\* and a pass that stops because of the cap reports reachedEnd = false.
C24_PagesWithinCap ==
    /\ p.pageNo <= maxPages
    /\ (ev.type = "stopped" /\ ev.reason = "maxPages") => ~ev.reachedEnd

\* C24 amended: the cap bounds the pages fetched after the first one: a
\* pass fetches at most cap + 1 pages, the first page not being counted,
\* and a pass that stops because of the cap has fetched exactly cap + 1
\* pages and reports reachedEnd = false.
C24_LaterPagesWithinCap ==
    /\ p.pagesProcessed <= maxPages
    /\ p.pageNo <= maxPages + 1
    /\ PassRunning => p.pageNo = p.pagesProcessed + 1
    /\ (ev.type = "stopped" /\ ev.reason = "maxPages") =>
          ~ev.reachedEnd /\ ev.page = maxPages + 1 /\ ev.token

\* a pass has stopped at the cap, with a pagination token still in hand
C24_Witness ==
    /\ ev.type = "stopped"
    /\ ev.reason = "maxPages"
    /\ ev.page = maxPages + 1
    /\ ~backfillStateStore.ended

\* the pass is in the detail request of the one new game of a first page
\* that has no pagination token and holds, besides that game, events of
\* known games only; no other detail request was made
OneNewOneKnown ==
    /\ p.pc = "fetchDuel"
    /\ p.first
    /\ ~p.pageToken
    /\ p.details = 1
    /\ Head(p.duelGames).gameId \notin p.existingGameIds
    /\ \/ p.pgFound /\ Len(p.duelGames) = 1
       \/ /\ Len(p.duelGames) > 1
          /\ \A k \in 2..Len(p.duelGames) : p.duelGames[k].gameId \in p.existingGameIds

\* C25: for a one-page feed without pagination token that holds a new
\* StandardDuels game and an already known game, the pass makes exactly one
\* detail request, adds one overall and one moving point for the new game
\* and nothing else, and stops with SyncState.ended = true.
C25_OnePageScenario ==
    [][(/\ OneNewOneKnown
        /\ ev'.last.kind = "progress"
        /\ ev'.last.gameMode = "StandardDuels"
        /\ ev'.last.ratingAfter # NULL
        /\ ev'.last.gameModeRatingAfter # NULL) =>
          LET new == Head(p.duelGames).gameId
          IN /\ ev'.type = "stopped"
             /\ ev'.reachedEnd
             /\ ev'.details = 1
             /\ backfillStateStore'.ended
             /\ \A k \in HistoryKeys : \A g \in GameIds :
                   Gained(k, g) = IF g = new /\ k \in {"overall", "moving"} THEN 1 ELSE 0]_vars

\* the second pass met the known game and the new one on a page without a
\* token, made one detail request and stopped with ended = true
C25_Witness ==
    /\ ev.type = "stopped"
    /\ ev.page = 1
    /\ ~ev.token
    /\ ev.found
    /\ ev.details = 1
    /\ ev.last.kind = "progress"
    /\ ev.last.gameMode = "StandardDuels"
    /\ Len(storedHistory.overall) = 2
    /\ Len(storedHistory.moving) >= 1
    /\ backfillStateStore.ended
    /\ passes = 2

Started(id) == \E k \in 1..Len(startOrder) : startOrder[k] = id

C27_OneSubModePointPerGame ==
    \A g \in GameIds :
        CountOf(storedHistory.moving, g) + CountOf(storedHistory.noMove, g)
           + CountOf(storedHistory.nmpz, g) <= 1

\* game g lies within the configured window
InWindow(g) == settings.backfillFullHistory \/ TimeOf(g) >= CutoffDate(settings)

\* C28: whenever the stored SyncState has ended = true, every game of the
\* feed that is older than some game in overall, lies within the configured
\* window and has a rating in its detail record is itself in overall.
C28_EndedMeansNothingOlderMissing ==
    backfillStateStore.ended =>
        \A g \in GameIds :
            (/\ InWindow(g)
             /\ \E k \in 1..Len(storedHistory.overall) :
                   storedHistory.overall[k].timestamp > TimeOf(g))
               => g \in IdsOf(storedHistory.overall)

\* C29: a backfill invocation and an update-check invocation that start
\* from the same stored state and get the same responses leave the same
\* SyncState: for the outcome of every pass, the value of `ended` written
\* at its end does not depend on which of the two the invocation was.
C29_SameStateEitherWay ==
    [][ev'.type = "stopped" =>
          /\ backfillStateStore'.ended = EndedAfterPass(TRUE, ev'.reachedEnd, ev'.ended)
          /\ backfillStateStore'.ended = EndedAfterPass(FALSE, ev'.reachedEnd, ev'.ended)
          /\ backfillStateStore'.lastLimitDays = LimitDays(settings)]_vars

\* C30: a detail record with missing fields (no teams array, or progress
\* data without ratingAfter) does not abort the pass: the pass does not
\* end in the catch block, the stored history loses nothing, and the next
\* unknown game of the page is requested.
C30_MissingFieldsDoNotAbort ==
    [][(\/ ev'.last.kind = "noTeams"
        \/ ev'.last.kind = "progress" /\ ev'.last.ratingAfter = NULL) =>
          /\ ev'.type # "failed"
          /\ \A k \in HistoryKeys : \A g \in GameIds :
                CountOf(storedHistory'[k], g) >= CountOf(storedHistory[k], g)
          /\ LET rest == DropKnown(Tail(p.duelGames),
                                   p.existingGameIds \cup {Head(p.duelGames).gameId})
             IN rest # <<>> => p'.pc = "fetchDuel" /\ p'.duelGames = rest]_vars

\* the queue has nothing to do: no request running or waiting, no timer set
QueueAtRest ==
    /\ exec = <<>>
    /\ requestQueue = <<>>
    /\ ~isProcessingQueue
    /\ drainTimers = 0

\* the step starts a request (api.ts:42-52)
StartsRequest == qev' \in {"startByEnqueue", "startByTimer"}

C32_NoStartDuringGap ==
    [][drainTimers > 0 => qev' # "startByEnqueue"]_vars

\* the step is the failure of a non-final attempt of request id
RetriesAfterFailure(id) ==
    /\ id \in DOMAIN exec
    /\ id \in DOMAIN exec'
    /\ exec[id].phase = "attempt"
    /\ exec'[id].phase = "retryWait"

\* api.ts:113, 163: the local retry delay in attempt i (0-based)
RECURSIVE LocalRetryDelay(_)
LocalRetryDelay(i) ==
    IF i = 0 THEN DEFAULT_RETRY_DELAY ELSE 2 * LocalRetryDelay(i - 1)

PassStep ==
    /\ PassRunning
    /\ ev'.type \notin {"dropped", "panel", "settings", "reload", "cleared"}

\* C34: a step of a running sync pass leaves SyncState alone unless it is
\* the step in which the pass stops by a STOP rule (a page-fetch failure
\* included); that step ends the pass and writes SyncState, with
\* lastLimitDays = 9999 when full history is on and backfillDays otherwise.
C34_SyncStateWrittenOnceAtStop ==
    [][PassStep =>
         IF ev'.type = "stopped"
         THEN /\ ~PassRunning'
              /\ backfillStateStore'.lastSyncTimestamp = Now
              /\ backfillStateStore'.lastLimitDays =
                    IF settings.backfillFullHistory THEN 9999 ELSE settings.backfillDays
         ELSE backfillStateStore' = backfillStateStore]_vars

\* a full-history pass has just stopped because a page could not be fetched
\* after a game had been merged, and SyncState carries the sentinel
C34_Witness ==
    /\ ev.type = "stopped"
    /\ ev.reason = "fetchFailed"
    /\ ev.details > 0
    /\ settings.backfillFullHistory
    /\ backfillStateStore.lastLimitDays = 9999
    /\ backfillStateStore.lastSyncTimestamp = Now

Settled(id) == id \in DOMAIN settled

\* C36: every request enqueued through fetchApi is started and its promise
\* settled in the end; and at no time is a request waiting in the queue
\* with nothing left that would start it (no request running, no
\* continuation pending, no drain timer set).
C36_NoRequestStranded ==
    /\ [](requestQueue # <<>> => (isProcessingQueue \/ drainTimers > 0))
    /\ \A id \in 1..MaxRequests :
          (enqueued >= id) ~> (Started(id) /\ Settled(id))

\* every request the callers made has been started and has settled, and
\* the queue is at rest after the continuation of the last one
C36_Witness ==
    /\ \A id \in 1..MaxRequests : Started(id) /\ Settled(id)
    /\ enqueued = MaxRequests
    /\ QueueAtRest
    /\ qev = "resumed"

\* C37 as stated: whenever the in-progress flag is set it is cleared in the
\* end, however the sync invocation that set it went on: normally, by a
\* page-fetch failure, or by an exception in the sync or in the rendering
\* that follows it.
C37_FlagEventuallyCleared == isSyncing ~> ~isSyncing

\* C38 as stated, for the passes in which no request can have failed (the
\* pass has stopped by a rule other than a page-fetch failure and made no
\* detail request): after such a pass every game of the feed that lies
\* within the configured window (every game when full history is on) is in
\* the persisted overall sequence. Every game of this feed qualifies and
\* has a detail record with the tracked user's rating.
C38_NoFailureMeansComplete ==
    (/\ ev.type = "stopped"
     /\ ev.reason # "fetchFailed"
     /\ ev.details = 0)
        => \A g \in GameIds : InWindow(g) => g \in IdsOf(storedHistory.overall)

\* C39 as stated: every gameId that appears in the moving, noMove or nmpz
\* sequence of the persisted history also appears in its overall sequence.
C39_SubModeWithinOverall ==
    \A k \in {"moving", "noMove", "nmpz"} :
        IdsOf(storedHistory[k]) \subseteq IdsOf(storedHistory.overall)

\* C40 as stated: a change of the settings that does not widen the history
\* window, relative to the settings in force before the change, leaves
\* SyncState as it is and starts no backfill pass, also when an earlier
\* change made in the same panel did widen the window.
C40_NoWideningNoBackfill ==
    [][\A s \in SettingsSpace :
          (SettingsChange(s) /\ ~Widens) =>
              /\ backfillStateStore' = backfillStateStore
              /\ ev'.type # "started"]_vars

====
